---- MODULE Spec2Model ----
(***************************************************************************)
(* Token lifecycle of the user-account API: sign-up, sign-in, refresh,      *)
(* sign-out behind the authorize middleware, the in-memory token blacklist  *)
(* with its expiry timers, and the tokenVersion / refreshToken columns of   *)
(* the users table.                                                         *)
(*                                                                          *)
(* Every handler is split at the points where it awaits the store: one      *)
(* action is the synchronous code up to and including one store statement.  *)
(* Statements of concurrently handled requests interleave freely; the store *)
(* runs each single statement atomically and there are no transactions.     *)
(* The clock counts seconds (the resolution of the iat / exp claims of a    *)
(* JWT).  JWTs are deterministic: the same payload signed with the same key *)
(* in the same second is the same string, so a token is modelled by its     *)
(* payload and its signing key.  The clock advances by one second or by the *)
(* lifetime of a token.  An early return of a handler that sends a          *)
(* rejection and changes nothing is the guard of its action; the status it  *)
(* sends is given by the ...Status operator of the handler.                 *)
(*                                                                          *)
(* No route changes a password; the beforeUpdate hook of the model does the *)
(* work when an instance with a changed password is saved.  SpecApi is the  *)
(* API alone, Spec adds such saves.                                         *)
(*                                                                          *)
(* The link routes of the user controller (add and remove a YouTube link)   *)
(* work on the youtubeLinks column with a millisecond clock, from which the *)
(* link ids come; SpecLinks is the sign-up route with the link routes.      *)
(* The content listing is a function of the stored links and of the query;  *)
(* SpecContent applies it to collections the link routes can leave behind.  *)
(***************************************************************************)
EXTENDS Integers, FiniteSets, Sequences, Bags, TLC

VARIABLES
    now,             \* the clock, in seconds (Date.now() / 1000)
    ticks,           \* number of clock advances so far (bounds the model)
    envSecret,       \* process.env.JWT_SECRET
    db,              \* the users table: id -> row
    tokenBlacklist,  \* the Set of part_002 line 8
    timers,          \* pending setTimeout callbacks of signOut
    reqs,            \* requests in flight, each with its position and locals
    last,            \* the response of the request that completed most recently
    issued,          \* history: tokens returned to a client in a response
    invalidated,     \* history: refresh tokens returned before a later
                     \*          sign-out (200) or password change of the user
    revoked,         \* history: tokens that signOut put in the blacklist
    signOuts,        \* history: sign-outs answered 200
    pwChanges,       \* history: completed password changes
    ms,              \* the milliseconds of the clock: Date.now() % 1000
    youtubeLinks,    \* the youtubeLinks column: id -> array of links
    linkReqs,        \* requests to the link routes in flight
    content,         \* the response of the content listing served last
    profile,         \* the name, bio, location and profilePicture columns
    files,           \* the files in uploads/profile-pictures
    puts,            \* number of PUT /users/profile/me requests so far
    profileReqs,     \* requests to PUT /users/profile/me in flight
    sent             \* the last response to a profile update or to an error

vars == <<now, ticks, envSecret, db, tokenBlacklist, timers, reqs, last,
          issued, invalidated, revoked, signOuts, pwChanges,
          ms, youtubeLinks, linkReqs, content,
          profile, files, puts, profileReqs, sent>>

----------------------------------------------------------------------------
\* Bounds of the model

MaxTicks == 1
MaxReqs == 2
MaxPwChanges == 1
\* milliseconds the clock can advance within the second
MaxMs == 1
\* the latest millisecond a link of a listed collection was added in
MaxDate == 2
\* length of a link collection beyond which no further link is added
MaxLinks == 2
\* requests to the link routes that can be in flight together
MaxLinkReqs == 2

----------------------------------------------------------------------------
\* Program constants

\* expiresIn: "1d" of the access token, in seconds
AccessTTL == 86400

\* expiresIn: "7d" of the refresh token, in seconds
RefreshTTL == 604800

\* the literal key every jwt.sign and the verify calls of the controller use
HardSecret == "04058abe"

\* values process.env.JWT_SECRET can have: the same key, another key, unset
EnvSecrets == {HardSecret, "other", "unset"}

\* tokenVersion defaultValue
InitialTokenVersion == 0

Emails == {"ann@x.com"}
BadEmail == "not-an-email"
Passwords == {"password1", "password2"}
InitialPassword == "password1"
NewPassword == "password2"
TickSteps == {1, AccessTTL, RefreshTTL}

\* a parameter or field that a request does not give
Absent == "<absent>"

----------------------------------------------------------------------------
\* Tokens

Undefined == -1

NoToken == [typ |-> "none", uid |-> 0, ver |-> Undefined, iat |-> 0, key |-> "none"]

\* jwt.sign({ userId }, key, { expiresIn: "1d" })
signAccess(uid, t) ==
    [typ |-> "access", uid |-> uid, ver |-> Undefined, iat |-> t, key |-> HardSecret]

\* jwt.sign({ userId, version }, key, { expiresIn: "7d" })
signRefresh(uid, ver, t) ==
    [typ |-> "refresh", uid |-> uid, ver |-> ver, iat |-> t, key |-> HardSecret]

\* decoded.exp
Exp(tok) == tok.iat + (IF tok.typ = "refresh" THEN RefreshTTL ELSE AccessTTL)

\* jwt.verify(token, secret) does not throw: jsonwebtoken checks the
\* signature, then rejects when floor(now) >= exp
verify(tok, secret, t) == tok.key = secret /\ t < Exp(tok)

\* a token signed by somebody who does not have the key
forged(uid, t) ==
    [typ |-> "access", uid |-> uid, ver |-> Undefined, iat |-> t, key |-> "forged"]

----------------------------------------------------------------------------
\* The users table and Sequelize instances

\* a password attribute holds the plain text until a hook has hashed it
Plain(p) == [alg |-> "plain", of |-> p]

\* bcrypt.hash / bcrypt.compare
Hash(pw) == [alg |-> "bcrypt", of |-> pw.of]
comparePassword(entered, stored) == Hash(Plain(entered)) = stored

NoInst == [id |-> 0, email |-> "", password |-> [alg |-> "none", of |-> ""],
           tokenVersion |-> 0, refreshToken |-> NoToken]

Columns == {"email", "password", "tokenVersion", "refreshToken"}

UserIds == DOMAIN db

\* User.findOne({ where: { email } })
findOne(email) == {u \in UserIds : db[u].email = email}

\* User.findByPk(id): the instance holds the row as it is now
findByPk(id) == [f \in Columns \cup {"id"} |-> IF f = "id" THEN id ELSE db[id][f]]

\* beforeUpdate hook: a changed password is hashed and bumps tokenVersion
beforeUpdate(inst, old) ==
    IF inst.password # old.password
    THEN [inst EXCEPT !.password = Hash(inst.password),
                      !.tokenVersion = inst.tokenVersion + 1]
    ELSE inst

\* Model.save() of a loaded instance: runs the hook, then UPDATEs only the
\* attributes whose value differs from the value the instance was loaded
\* with (no statement at all when nothing changed)
save(inst, old) ==
    LET hooked == beforeUpdate(inst, old) IN
    [db EXCEPT ![inst.id] =
        [f \in Columns |-> IF hooked[f] # old[f] THEN hooked[f] ELSE db[inst.id][f]]]

----------------------------------------------------------------------------
\* Requests in flight and responses

Req(kind, pc, token, inst, password) ==
    [kind |-> kind, pc |-> pc, token |-> token, inst |-> inst,
     password |-> password]

InFlight == BagToSet(reqs)
Start(r) == reqs (+) SetToBag({r})
Finish(r) == reqs (-) SetToBag({r})
Move(r, s) == (reqs (-) SetToBag({r})) (+) SetToBag({s})
CanAccept == BagCardinality(reqs) < MaxReqs

Response(op, status, token) ==
    [op |-> op, status |-> status, token |-> token]

IssuedRefresh(uid) == {t \in issued : t.typ = "refresh" /\ t.uid = uid}
IssuedAccess == {t \in issued : t.typ = "access"}

NoHistory == UNCHANGED <<issued, invalidated, revoked, signOuts, pwChanges>>

\* a step of the auth routes: the link routes and the listing stay as they are
NoProfile == UNCHANGED <<profile, files, puts, profileReqs, sent>>
NoLinks == UNCHANGED <<ms, youtubeLinks, linkReqs, content>> /\ NoProfile
SameSecond == UNCHANGED <<now, ticks, envSecret>>
NoClock == SameSecond /\ NoLinks

----------------------------------------------------------------------------
\* generateTokens: both tokens are signed now from the instance in memory and
\* the refresh token is saved on the row

generateTokens(inst) ==
    [accessToken |-> signAccess(inst.id, now),
     refreshToken |-> signRefresh(inst.id, inst.tokenVersion, now),
     db |-> save([inst EXCEPT !.refreshToken =
                      signRefresh(inst.id, inst.tokenVersion, now)], inst)]

\* sign-up without the findOne pre-check
signUpStatus_NoPreCheck(email) ==
    IF email = BadEmail THEN 400
    ELSE 0

\* POST /auth/signup: the status of its early returns (Joi validation, the
\* findOne pre-check), 0 when it goes on to User.create
signUpStatus(email) ==
    IF email = BadEmail THEN 400
    ELSE IF findOne(email) # {} THEN 409
    ELSE 0

\* POST /auth/signup up to the findOne pre-check
signUpFind(email, password) ==
    /\ signUpStatus(email) = 0
    /\ CanAccept
    /\ reqs' = Start(Req("signUp", "create", NoToken,
                         [NoInst EXCEPT !.email = email], password))
    /\ UNCHANGED <<db, tokenBlacklist, timers, last>>
    /\ NoHistory /\ NoClock

\* User.create: INSERT under the unique index on email; beforeCreate hashes
\* the password; a violation is caught by signUp's catch and answered 500
signUpCreate(r) ==
    /\ r.kind = "signUp" /\ r.pc = "create"
    /\ IF findOne(r.inst.email) # {}
       THEN /\ last' = Response("signUp", 500, NoToken)
            /\ reqs' = Finish(r)
            /\ UNCHANGED db
       ELSE LET id == Cardinality(UserIds) + 1
                row == [email |-> r.inst.email, password |-> Hash(Plain(r.password)),
                        tokenVersion |-> InitialTokenVersion,
                        refreshToken |-> NoToken]
            IN /\ db' = db @@ (id :> row)
               /\ reqs' = Move(r, [r EXCEPT !.pc = "tokens",
                                     !.inst = [f \in Columns \cup {"id"} |->
                                                IF f = "id" THEN id ELSE row[f]]])
               /\ UNCHANGED last
    /\ UNCHANGED <<tokenBlacklist, timers>>
    /\ NoHistory /\ NoClock

\* generateTokens(newUser) and the 201 response
signUpTokens(r) ==
    /\ r.kind = "signUp" /\ r.pc = "tokens"
    /\ LET g == generateTokens(r.inst) IN
       /\ db' = g.db
       /\ last' = Response("signUp", 201, g.refreshToken)
       /\ issued' = issued \cup {g.accessToken, g.refreshToken}
    /\ reqs' = Finish(r)
    /\ UNCHANGED <<tokenBlacklist, timers, invalidated, revoked, signOuts, pwChanges>>
    /\ NoClock

\* POST /auth/signin: the status of its early returns, 0 when it goes on to
\* generateTokens
signInStatus(email, password) ==
    IF email = BadEmail THEN 400
    ELSE IF findOne(email) = {} THEN 404
    ELSE IF \E u \in findOne(email) : ~comparePassword(password, db[u].password)
    THEN 401
    ELSE 0

\* POST /auth/signin up to comparePassword
signInFind(email, password) ==
    /\ signInStatus(email, password) = 0
    /\ CanAccept
    /\ \E u \in findOne(email) :
          reqs' = Start(Req("signIn", "tokens", NoToken, findByPk(u), password))
    /\ UNCHANGED <<db, tokenBlacklist, timers, last>>
    /\ NoHistory /\ NoClock

\* generateTokens(user) and the 200 response
signInTokens(r) ==
    /\ r.kind = "signIn" /\ r.pc = "tokens"
    /\ LET g == generateTokens(r.inst) IN
       /\ db' = g.db
       /\ last' = Response("signIn", 200, g.refreshToken)
       /\ issued' = issued \cup {g.accessToken, g.refreshToken}
    /\ reqs' = Finish(r)
    /\ UNCHANGED <<tokenBlacklist, timers, invalidated, revoked, signOuts, pwChanges>>
    /\ NoClock

\* refresh without the comparison with the stored refresh token
refreshStatus_NoStoredCheck(tok) ==
    IF tok = NoToken THEN 400
    ELSE IF ~verify(tok, HardSecret, now) THEN 401
    ELSE IF tok.uid \notin UserIds THEN 401
    ELSE IF tok.ver # db[tok.uid].tokenVersion THEN 401
    ELSE 200

\* refresh without the comparison of the embedded version
refreshStatus_NoVersionCheck(tok) ==
    IF tok = NoToken THEN 400
    ELSE IF ~verify(tok, HardSecret, now) THEN 401
    ELSE IF tok.uid \notin UserIds \/ db[tok.uid].refreshToken # tok THEN 401
    ELSE 200

\* the status POST /auth/refresh-token answers for a token in this state
refreshStatus(tok) ==
    IF tok = NoToken THEN 400
    ELSE IF ~verify(tok, HardSecret, now) THEN 401
    ELSE IF tok.uid \notin UserIds \/ db[tok.uid].refreshToken # tok THEN 401
    ELSE IF tok.ver # db[tok.uid].tokenVersion THEN 401
    ELSE 200

\* POST /auth/refresh-token answering 200 with a new access token
refreshToken(tok) ==
    /\ refreshStatus(tok) = 200
    /\ last' = Response("refreshToken", 200, tok)
    /\ issued' = issued \cup {signAccess(tok.uid, now)}
    /\ UNCHANGED <<db, tokenBlacklist, timers, reqs,
                   invalidated, revoked, signOuts, pwChanges>>
    /\ NoClock

----------------------------------------------------------------------------
\* POST /auth/signout = authorize, then signOut

\* authorize without the blacklist lookup
authorizeStatus_NoBlacklist(tok) ==
    IF tok = NoToken THEN 401
    ELSE IF ~verify(tok, envSecret, now) THEN 401
    ELSE IF tok.uid \notin UserIds THEN 401
    ELSE 0

\* what the authorize middleware answers for a bearer token in this state:
\* 401, or 0 when it calls next()
authorizeStatus(tok) ==
    IF tok = NoToken THEN 401
    ELSE IF tok \in tokenBlacklist THEN 401
    ELSE IF ~verify(tok, envSecret, now) THEN 401
    ELSE IF tok.uid \notin UserIds THEN 401
    ELSE 0

\* authorize calling next() into signOut
authorize(tok) ==
    /\ authorizeStatus(tok) = 0
    /\ CanAccept
    /\ reqs' = Start(Req("signOut", "handler", tok, NoInst, ""))
    /\ UNCHANGED <<db, tokenBlacklist, timers, last>>
    /\ NoHistory /\ NoClock

\* a timer whose delay is computed from the issue time instead of the expiry
timerDue_AtIssue(tok) == tok.iat

\* the time the setTimeout of signOut fires at (its delay is exp*1000 - now)
timerDue(tok) == Exp(tok)

\* signOut up to its findByPk: blacklist the token, verify it, set the timer;
\* a token that no longer verifies ends in the catch and is answered 200
signOutHandler(r) ==
    /\ r.kind = "signOut" /\ r.pc = "handler"
    /\ tokenBlacklist' = tokenBlacklist \cup {r.token}
    /\ revoked' = revoked \cup {r.token}
    /\ IF verify(r.token, HardSecret, now)
       THEN /\ timers' = timers \cup {[token |-> r.token, due |-> timerDue(r.token)]}
            /\ reqs' = Move(r, [r EXCEPT !.pc = "find"])
            /\ UNCHANGED <<last, signOuts, invalidated>>
       ELSE /\ last' = Response("signOut", 200, r.token)
            /\ reqs' = Finish(r)
            /\ signOuts' = [signOuts EXCEPT ![r.token.uid] = @ + 1]
            /\ invalidated' = invalidated \cup IssuedRefresh(r.token.uid)
            /\ UNCHANGED timers
    /\ UNCHANGED <<db, issued, pwChanges>>
    /\ NoClock

\* const user = await User.findByPk(decoded.userId)
signOutFind(r) ==
    /\ r.kind = "signOut" /\ r.pc = "find"
    /\ reqs' = Move(r, [r EXCEPT !.pc = "save", !.inst = findByPk(r.token.uid)])
    /\ UNCHANGED <<db, tokenBlacklist, timers, last>>
    /\ NoHistory /\ NoClock

\* user.tokenVersion += 1; user.refreshToken = null; await user.save(); 200
signOutSave(r) ==
    /\ r.kind = "signOut" /\ r.pc = "save"
    /\ db' = save([r.inst EXCEPT !.tokenVersion = r.inst.tokenVersion + 1,
                                 !.refreshToken = NoToken], r.inst)
    /\ last' = Response("signOut", 200, r.token)
    /\ reqs' = Finish(r)
    /\ signOuts' = [signOuts EXCEPT ![r.token.uid] = @ + 1]
    /\ invalidated' = invalidated \cup IssuedRefresh(r.token.uid)
    /\ UNCHANGED <<tokenBlacklist, timers, issued, revoked, pwChanges>>
    /\ NoClock

\* the setTimeout callback: tokenBlacklist.delete(token), not before it is due
timerFire(tm) ==
    /\ tm \in timers
    /\ now >= tm.due
    /\ tokenBlacklist' = tokenBlacklist \ {tm.token}
    /\ timers' = timers \ {tm}
    /\ UNCHANGED <<db, reqs, last>>
    /\ NoHistory /\ NoClock

----------------------------------------------------------------------------
\* A password change: an instance is loaded, its password is set and it is
\* saved, which runs the beforeUpdate hook

passwordLoad(u, password) ==
    /\ u \in UserIds
    /\ CanAccept
    /\ pwChanges[u] + Cardinality({r \in InFlight : r.kind = "password"})
          < MaxPwChanges
    /\ reqs' = Start(Req("password", "save", NoToken, findByPk(u), password))
    /\ UNCHANGED <<db, tokenBlacklist, timers, last>>
    /\ NoHistory /\ NoClock

passwordSave(r) ==
    /\ r.kind = "password" /\ r.pc = "save"
    /\ db' = save([r.inst EXCEPT !.password = Plain(r.password)], r.inst)
    /\ last' = Response("password", 200, NoToken)
    /\ reqs' = Finish(r)
    /\ pwChanges' = [pwChanges EXCEPT ![r.inst.id] = @ + 1]
    /\ invalidated' = invalidated \cup IssuedRefresh(r.inst.id)
    /\ UNCHANGED <<tokenBlacklist, timers, issued, revoked, signOuts>>
    /\ NoClock

----------------------------------------------------------------------------
\* Time passes

Tick(d) ==
    /\ ticks < MaxTicks
    /\ now' = now + d
    /\ ticks' = ticks + 1
    /\ UNCHANGED <<envSecret, db, tokenBlacklist, timers, reqs, last>>
    /\ NoHistory /\ NoLinks

----------------------------------------------------------------------------
\* The link routes: POST /users/profile/youtube and
\* DELETE /users/profile/youtube/:linkId, both behind authorize

\* the users of the link routes
LinkEmails == Emails \cup {"bob@x.com"}
LinkUserIds == 1..Cardinality(LinkEmails)

\* Date.now()
DateNow == now * 1000 + ms

\* new Date(t).toISOString() and new Date(string).getTime()
toISOString(t) == [iso |-> t]
getTime(string) == string.iso

\* request bodies: a URL the pattern of the Joi schema accepts, one it
\* rejects, and a title
GoodUrl == "https://youtu.be/a"
BadUrl == "https://example.com/a"
Title == "a video"

NoLink == [id |-> "", url |-> "", title |-> "", addedAt |-> toISOString(0)]

\* link ids a client can send: the ids of this second and an unknown one
LinkIds == {ToString(now * 1000 + t) : t \in 0..MaxMs} \cup {"unknown"}

LinkReq(kind, pc, uid, links, link) ==
    [kind |-> kind, pc |-> pc, uid |-> uid, links |-> links, link |-> link]

LinksInFlight == BagToSet(linkReqs)
LinkMove(r, t) == (linkReqs (-) SetToBag({r})) (+) SetToBag({t})

\* authorize lets a request of user u through: u presents an access token it
\* was given and authorize accepts it, so that req.user.id is u
authorized(u) ==
    \E tok \in IssuedAccess : tok.uid = u /\ authorizeStatus(tok) = 0

\* steps of the link routes leave the auth routes as they are
NoAuth ==
    /\ UNCHANGED <<db, tokenBlacklist, timers, reqs, last, content>>
    /\ NoHistory /\ SameSecond /\ NoProfile

\* addYoutubeLink: the status of its early return (Joi validation), 0 when it
\* goes on to findByPk
addYoutubeLinkStatus(url) ==
    IF url # GoodUrl THEN 400 ELSE 0

\* addYoutubeLink up to findByPk: the instance holds the links as they are now
addLinkFind(u, url, title) ==
    /\ authorized(u)
    /\ addYoutubeLinkStatus(url) = 0
    /\ BagCardinality(linkReqs) < MaxLinkReqs
    /\ Len(youtubeLinks[u]) < MaxLinks
    /\ linkReqs' = linkReqs (+) SetToBag({LinkReq("add", "update", u, youtubeLinks[u],
                        [NoLink EXCEPT !.url = url, !.title = title])})
    /\ UNCHANGED <<ms, youtubeLinks>>
    /\ NoAuth

\* the new entry: its id is the clock reading as a string
newLink(url, title) ==
    [id |-> ToString(DateNow), url |-> url, title |-> title,
     addedAt |-> toISOString(DateNow)]

\* user.update({ youtubeLinks: [...currentLinks, newLink] })
addLinkUpdate(r) ==
    /\ r.kind = "add" /\ r.pc = "update"
    /\ LET link == newLink(r.link.url, r.link.title) IN
       /\ youtubeLinks' = [youtubeLinks EXCEPT ![r.uid] = Append(r.links, link)]
       /\ linkReqs' = LinkMove(r, [r EXCEPT !.pc = "respond", !.link = link])
    /\ UNCHANGED ms
    /\ NoAuth

\* the findByPk for the response, and the 201 with newLink and the user
addLinkRespond(r) ==
    /\ r.kind = "add" /\ r.pc = "respond"
    /\ linkReqs' = linkReqs (-) SetToBag({r})
    /\ UNCHANGED <<ms, youtubeLinks>>
    /\ NoAuth

\* currentLinks.filter((link) => link.id !== linkId)
removeFilter(links, linkId) == SelectSeq(links, LAMBDA link : link.id # linkId)

\* removeYoutubeLink without the comparison of the lengths
removeYoutubeLinkStatus_NoLengthCheck(u, linkId) == 0

\* removeYoutubeLink: the status of its early return, 0 when it goes on to
\* update
removeYoutubeLinkStatus(u, linkId) ==
    IF Len(removeFilter(youtubeLinks[u], linkId)) = Len(youtubeLinks[u])
    THEN 404 ELSE 0

\* removeYoutubeLink up to findByPk and the length comparison
removeLinkFind(u, linkId) ==
    /\ authorized(u)
    /\ removeYoutubeLinkStatus(u, linkId) = 0
    /\ BagCardinality(linkReqs) < MaxLinkReqs
    /\ linkReqs' = linkReqs (+) SetToBag({LinkReq("remove", "update", u, youtubeLinks[u],
                        [NoLink EXCEPT !.id = linkId])})
    /\ UNCHANGED <<ms, youtubeLinks>>
    /\ NoAuth

\* user.update({ youtubeLinks: updatedLinks })
removeLinkUpdate(r) ==
    /\ r.kind = "remove" /\ r.pc = "update"
    /\ youtubeLinks' = [youtubeLinks EXCEPT ![r.uid] = removeFilter(r.links, r.link.id)]
    /\ linkReqs' = LinkMove(r, [r EXCEPT !.pc = "respond"])
    /\ UNCHANGED ms
    /\ NoAuth

\* the findByPk for the response, and the 200 with the user
removeLinkRespond(r) ==
    /\ r.kind = "remove" /\ r.pc = "respond"
    /\ linkReqs' = linkReqs (-) SetToBag({r})
    /\ UNCHANGED <<ms, youtubeLinks>>
    /\ NoAuth

\* a millisecond passes
TickMs ==
    /\ ms < MaxMs
    /\ ms' = ms + 1
    /\ UNCHANGED <<youtubeLinks, linkReqs>>
    /\ NoAuth

----------------------------------------------------------------------------
\* The profile columns and the files of the profile pictures

\* null in a column
NullValue == "<null>"

\* the name every user signs up with
SignUpName == "Ann Lee"

\* the columns of a row as User.create leaves them
NewProfile ==
    [name |-> SignUpName, bio |-> NullValue, location |-> NullValue,
     profilePicture |-> NullValue]

\* errors a handler hands to next(error) or catches: name, message, the
\* statusCode property (0 when the error has none) and the violated field
Err(name, message, statusCode, path) ==
    [name |-> name, message |-> message, statusCode |-> statusCode, path |-> path]
NoError == Err("", "", 0, "")
UniqueError == Err("SequelizeUniqueConstraintError", "Validation error", 0, "email")
ConnectionError ==
    Err("SequelizeConnectionError", "connect ECONNREFUSED 10.0.0.5:5432", 0, "")
DatabaseError ==
    Err("SequelizeDatabaseError", "relation \"users\" does not exist", 0, "")
TypeError == Err("TypeError", "Cannot read properties of undefined", 0, "")
EmptyError == Err("Error", "", 0, "")
TeapotError == Err("Error", "upstream said no", 418, "")
Errors ==
    {UniqueError, ConnectionError, DatabaseError, TypeError, EmptyError, TeapotError}

\* errorMiddleware: the status and message it answers for err
errorMiddleware(err) ==
    CASE err.name = "SequelizeUniqueConstraintError" ->
            [status |-> 409, message |-> err.path \o " already exists"]
      [] err.name = "SequelizeDatabaseError" ->
            [status |-> 500, message |-> "Database error occurred"]
      [] err.name = "SequelizeConnectionError" ->
            [status |-> 503, message |-> "Database connection failed. Please try again."]
      [] OTHER ->
            [status |-> IF err.statusCode # 0 THEN err.statusCode ELSE 500,
             message |-> IF err.message # "" THEN err.message
                         ELSE "Internal server error"]

\* a response: the handler, the status, the message, and the error the
\* handler caught or was handed, NoError when it answers none
Sent(op, status, message) ==
    [op |-> op, status |-> status, message |-> message, error |-> NoError]
Answered(op, err, status, message) ==
    [op |-> op, status |-> status, message |-> message, error |-> err]
NoResponse == Sent("none", 0, "")

\* nobody has updated a profile or uploaded a picture
NoProfileYet ==
    /\ profile = [u \in LinkUserIds |-> NewProfile]
    /\ files = {}
    /\ puts = 0
    /\ profileReqs = EmptyBag
    /\ sent = NoResponse

\* PUT /users/profile/me = authorize, uploadProfilePicture, handleMulterError,
\* updateProfile

\* requests that can be made before the model stops accepting them
MaxPuts == 2

NewName == "Bob Lee"
ShortName == "ab"
NewEmail == "new@x.com"
NewBio == ""
NewLocation == "Oslo"

\* a request without fields and without a file, and the requests made
NoFields ==
    [name |-> Absent, email |-> Absent, bio |-> Absent, location |-> Absent,
     file |-> FALSE]
Bodies ==
    {[NoFields EXCEPT !.name = NewName],
     [NoFields EXCEPT !.email = NewEmail],
     [NoFields EXCEPT !.bio = NewBio],
     [NoFields EXCEPT !.location = NewLocation],
     [NoFields EXCEPT !.file = TRUE],
     [NoFields EXCEPT !.email = NewEmail, !.file = TRUE],
     [NoFields EXCEPT !.email = "bob@x.com", !.file = TRUE],
     [NoFields EXCEPT !.name = ShortName, !.file = TRUE]}

\* the file name multer gives the upload of the n-th request: it is random
\* and new
PicturePath(n) == "uploads/profile-pictures/profile-" \o ToString(n)
NoPath == "<no file>"

\* the picture the first user has uploaded before
OldPicture == PicturePath(0)

\* multer's diskStorage: the file of the request is on disk when the
\* handler runs
stored(body) == IF body.file THEN files \cup {PicturePath(puts + 1)} ELSE files
filePath(body) == IF body.file THEN PicturePath(puts + 1) ELSE NoPath

ProfileReq(pc, uid, body, inst, path) ==
    [pc |-> pc, uid |-> uid, body |-> body, inst |-> inst, path |-> path]

ProfilesInFlight == BagToSet(profileReqs)
ProfileMove(r, t) == (profileReqs (-) SetToBag({r})) (+) SetToBag({t})
ProfileFinish(r) == profileReqs (-) SetToBag({r})

\* steps of the profile route leave the other routes as they are
NoOtherRoute ==
    /\ UNCHANGED <<tokenBlacklist, timers, reqs, last,
                   ms, youtubeLinks, linkReqs, content>>
    /\ NoHistory /\ SameSecond

\* updateProfile: the status of its early return (Joi validation)
updateProfileStatus(body) ==
    IF body.name = ShortName THEN 400 ELSE 0

\* a request the Joi schema rejects: multer has stored its file, 400
updateProfileInvalid(u, body) ==
    /\ authorized(u)
    /\ puts < MaxPuts
    /\ updateProfileStatus(body) = 400
    /\ files' = stored(body)
    /\ puts' = puts + 1
    /\ sent' = Sent("updateProfile", 400, "Name must be at least 3 characters long")
    /\ UNCHANGED <<db, profile, profileReqs>>
    /\ NoOtherRoute

\* User.findByPk(id) with the profile columns
findProfile(id) ==
    [email |-> db[id].email, name |-> profile[id].name, bio |-> profile[id].bio,
     location |-> profile[id].location,
     profilePicture |-> profile[id].profilePicture]

\* updateProfile up to findByPk; the email pre-check comes next when the
\* email is given and differs from the loaded one
updateProfileFind(u, body) ==
    /\ authorized(u)
    /\ puts < MaxPuts
    /\ updateProfileStatus(body) = 0
    /\ files' = stored(body)
    /\ puts' = puts + 1
    /\ LET user == findProfile(u)
           pc == IF body.email # Absent /\ body.email # user.email
                 THEN "check" ELSE "update"
       IN profileReqs' = profileReqs (+) SetToBag({ProfileReq(
                            pc, u, body, user, filePath(body))})
    /\ UNCHANGED <<db, profile, sent>>
    /\ NoOtherRoute

\* User.findOne({ where: { email } }): 409 when the email is taken
updateProfileCheck(r) ==
    /\ r.pc = "check"
    /\ IF findOne(r.body.email) # {}
       THEN /\ sent' = Sent("updateProfile", 409, "Email already in use")
            /\ profileReqs' = ProfileFinish(r)
       ELSE /\ profileReqs' = ProfileMove(r, [r EXCEPT !.pc = "update"])
            /\ UNCHANGED sent
    /\ UNCHANGED <<db, profile, files, puts>>
    /\ NoOtherRoute

\* the values user.update(updateData) is called with
updateData(r) ==
    LET user == r.inst
        body == r.body
        fields ==
            [name |-> IF body.name # Absent THEN body.name ELSE user.name,
             email |-> IF body.email # Absent THEN body.email ELSE user.email,
             bio |-> IF body.bio # Absent THEN body.bio ELSE user.bio,
             location |-> IF body.location # Absent THEN body.location
                          ELSE user.location]
    IN IF r.path # NoPath
       THEN [profilePicture |-> r.path] @@ fields
       ELSE fields

\* fs.unlinkSync of the loaded user's picture, when the request has a file
unlinked(r) ==
    IF r.path # NoPath /\ r.inst.profilePicture # NullValue
    THEN files \ {r.inst.profilePicture}
    ELSE files

\* the row after UPDATE ... SET of every given column
written(u, values) ==
    [k \in DOMAIN profile[u] |->
        IF k \in DOMAIN values THEN values[k] ELSE profile[u][k]]

\* updateProfile from the unlink to user.update(updateData): the instance
\* issues no statement when no given value differs from the loaded one, and
\* otherwise sets every given column; the statement fails with outcome err,
\* or on the unique index of email, and errorMiddleware answers
updateProfileUpdate(r, outcome) ==
    /\ r.pc = "update"
    /\ files' = unlinked(r)
    /\ LET values == updateData(r)
           changed == \E k \in DOMAIN values : values[k] # r.inst[k]
           taken == \E v \in UserIds \ {r.uid} : db[v].email = values.email
           err == IF outcome # NoError THEN outcome
                  ELSE IF taken THEN UniqueError ELSE NoError
       IN IF ~changed
          THEN /\ outcome = NoError
               /\ profileReqs' = ProfileMove(r, [r EXCEPT !.pc = "respond"])
               /\ UNCHANGED <<db, profile, sent>>
          ELSE IF err # NoError
          THEN /\ sent' = Answered("updateProfile", err,
                                   errorMiddleware(err).status,
                                   errorMiddleware(err).message)
               /\ profileReqs' = ProfileFinish(r)
               /\ UNCHANGED <<db, profile>>
          ELSE /\ db' = [db EXCEPT ![r.uid].email = values.email]
               /\ profile' = [profile EXCEPT ![r.uid] = written(r.uid, values)]
               /\ profileReqs' = ProfileMove(r, [r EXCEPT !.pc = "respond"])
               /\ UNCHANGED sent
    /\ UNCHANGED puts
    /\ NoOtherRoute

\* updateProfile from the second findByPk to the 200
updateProfileRespond(r) ==
    /\ r.pc = "respond"
    /\ sent' = Sent("updateProfile", 200, "Profile updated successfully")
    /\ profileReqs' = ProfileFinish(r)
    /\ UNCHANGED <<db, profile, files, puts>>
    /\ NoOtherRoute

----------------------------------------------------------------------------
\* Store calls that throw inside the auth handlers

\* the catch blocks answer; nothing else changes but the request that ends
Caught(r) ==
    /\ reqs' = Finish(r)
    /\ UNCHANGED <<db, tokenBlacklist, timers, last, profile, files, puts,
                   profileReqs, ms, youtubeLinks, linkReqs, content>>
    /\ NoHistory /\ SameSecond

\* the message of a catch block that answers error.message || fallback
messageOr(err, fallback) == IF err.message # "" THEN err.message ELSE fallback

\* User.create or generateTokens throws in signUp: its catch answers 500
\* with the message of the error
signUpThrows(r, err) ==
    /\ r.kind = "signUp"
    /\ sent' = Answered("signUp", err, 500, messageOr(err, "Failed to create user"))
    /\ Caught(r)

\* generateTokens throws in signIn: its catch answers 500 with the message of
\* the error
signInThrows(r, err) ==
    /\ r.kind = "signIn"
    /\ sent' = Answered("signIn", err, 500, messageOr(err, "Failed to sign in"))
    /\ Caught(r)

\* User.findByPk throws in refreshToken, for a token that verifies: its catch
\* answers 500 with a fixed message
refreshThrows(tok, err) ==
    /\ tok # NoToken
    /\ verify(tok, HardSecret, now)
    /\ sent' = Answered("refreshToken", err, 500, "Failed to refresh token")
    /\ UNCHANGED <<db, tokenBlacklist, timers, reqs, last, profile, files, puts,
                   profileReqs, ms, youtubeLinks, linkReqs, content>>
    /\ NoHistory /\ SameSecond

\* User.findByPk or user.save throws in signOut: the catch around jwt.verify
\* swallows the error and the handler answers 200
signOutThrows(r, err) ==
    /\ r.kind = "signOut" /\ r.pc \in {"find", "save"}
    /\ sent' = Answered("signOut", err, 200, "User signed out successfully")
    /\ Caught(r)

----------------------------------------------------------------------------
\* The content listing: GET /users/content

\* the numbers the decimal strings of the queries denote
Decimal ==
    [s \in {"0", "1", "2", "3", "4", "50", "51"} |->
        CASE s = "0" -> 0 [] s = "1" -> 1 [] s = "2" -> 2 [] s = "3" -> 3
          [] s = "4" -> 4 [] s = "50" -> 50 [] s = "51" -> 51]

Pages == {Absent, "1", "2", "3", "0", "abc"}
Limits == {Absent, "1", "2", "50", "0", "51"}
SortTypes == {"newest", "oldest", "popular"}
SortBys == SortTypes \cup {Absent, "random"}
Queries == [page : Pages, limit : Limits, sortBy : SortBys]

\* Joi.number().integer().min(lo) on an optional parameter
joiInteger(s, lo) ==
    s = Absent \/ (s \in DOMAIN Decimal /\ Decimal[s] >= lo)

\* getAllContent: 400 when the Joi schema rejects the query
getAllContentStatus(q) ==
    IF /\ joiInteger(q.page, 1)
       /\ joiInteger(q.limit, 1) /\ (q.limit # Absent => Decimal[q.limit] <= 50)
       /\ q.sortBy \in SortTypes \cup {Absent}
    THEN 200 ELSE 400

\* parseInt(s) || d: NaN and 0 give way to the default
parseIntOr(s, d) ==
    IF s \in DOMAIN Decimal /\ Decimal[s] # 0 THEN Decimal[s] ELSE d

Max(a, b) == IF a >= b THEN a ELSE b
Min(a, b) == IF a <= b THEN a ELSE b

page(q) == Max(1, parseIntOr(q.page, 1))
limit(q) == Min(50, Max(1, parseIntOr(q.limit, 10)))
sortBy(q) == IF q.sortBy \in SortTypes THEN q.sortBy ELSE "newest"

\* `/api/v1/users/${id}/profile-picture`
profilePictureUrl(u) == <<"/api/v1/users/", u, "/profile-picture">>

\* an entry without addedAt
NoDate == [iso |-> Undefined]

\* the items of one user when no entry is skipped
userContent_NoSkip(u) ==
    [i \in 1..Len(youtubeLinks[u]) |->
        [id |-> youtubeLinks[u][i].id,
         title |-> youtubeLinks[u][i].title,
         url |-> youtubeLinks[u][i].url,
         addedAt |-> youtubeLinks[u][i].addedAt,
         user |-> [id |-> u, profilePictureUrl |-> profilePictureUrl(u)]]]

\* the items of one user: entries without id or url are skipped, a missing
\* title and a missing date are filled in
userContent(u) ==
    LET valid == SelectSeq(youtubeLinks[u], LAMBDA link : link.id # "" /\ link.url # "")
    IN [i \in 1..Len(valid) |->
          [id |-> valid[i].id,
           title |-> IF valid[i].title = "" THEN "Untitled Video" ELSE valid[i].title,
           url |-> valid[i].url,
           addedAt |-> IF valid[i].addedAt = NoDate THEN toISOString(DateNow)
                       ELSE valid[i].addedAt,
           user |-> [id |-> u, profilePictureUrl |-> profilePictureUrl(u)]]]

\* User.findAll ordered by created_at DESC, flattened user by user
RECURSIVE contentUpTo(_)
contentUpTo(u) ==
    IF u = 0 THEN <<>>
    ELSE (IF u \in UserIds THEN userContent(u) ELSE <<>>) \o contentUpTo(u - 1)

allContent == contentUpTo(Cardinality(LinkEmails))

\* the comparator of a sort type that orders every type like newest
getSortFn_AlwaysNewest(sortType, a, b) ==
    getTime(b.addedAt) - getTime(a.addedAt)

\* getSortFn(sortType)(a, b)
getSortFn(sortType, a, b) ==
    IF sortType = "oldest"
    THEN getTime(a.addedAt) - getTime(b.addedAt)
    ELSE getTime(b.addedAt) - getTime(a.addedAt)

\* Array.prototype.sort is stable: an item goes behind every item that the
\* comparator does not put after it
insertSorted(item, sorted, sortType) ==
    LET k == Cardinality({i \in 1..Len(sorted) :
                            getSortFn(sortType, sorted[i], item) <= 0})
    IN SubSeq(sorted, 1, k) \o <<item>> \o SubSeq(sorted, k + 1, Len(sorted))

RECURSIVE sort(_, _)
sort(array, sortType) ==
    IF array = <<>> THEN <<>>
    ELSE insertSorted(array[Len(array)],
                      sort(SubSeq(array, 1, Len(array) - 1), sortType), sortType)

\* Array.prototype.slice(start, end) for indices that are not negative
slice(array, start, end) ==
    IF start >= Min(end, Len(array)) THEN <<>>
    ELSE SubSeq(array, start + 1, Min(end, Len(array)))

\* Math.ceil(a / b) that rounds down
ceil_Floor(a, b) == a \div b

\* Math.ceil(a / b)
ceil(a, b) == IF a % b = 0 THEN a \div b ELSE a \div b + 1

\* a first index that counts the pages from 0
startIndex_FromZero(q) == page(q) * limit(q)

total == Len(allContent)

totalPages(q) == ceil(total, limit(q))

startIndex(q) == (page(q) - 1) * limit(q)

endIndex(q) == Min(startIndex(q) + limit(q), total)

paginatedContent(q) ==
    slice(sort(allContent, sortBy(q)), startIndex(q), endIndex(q))

\* null in the pagination object
Null == 0

\* the 200 response of getAllContent
getAllContent(q) ==
    [status |-> 200,
     query |-> q,
     data |-> paginatedContent(q),
     pagination |->
        [total |-> total,
         limit |-> limit(q),
         totalPages |-> totalPages(q),
         currentPage |-> page(q),
         hasNextPage |-> endIndex(q) < total,
         hasPreviousPage |-> page(q) > 1,
         nextPage |-> IF endIndex(q) < total THEN page(q) + 1 ELSE Null,
         previousPage |-> IF page(q) > 1 THEN page(q) - 1 ELSE Null]]

NoContent == [status |-> 0]

\* GET /users/content answering 200
getAllContentHandler(q) ==
    /\ getAllContentStatus(q) = 200
    /\ content' = getAllContent(q)
    /\ UNCHANGED <<db, tokenBlacklist, timers, reqs, last,
                   ms, youtubeLinks, linkReqs>>
    /\ NoHistory /\ SameSecond /\ NoProfile

----------------------------------------------------------------------------
\* The user objects in the response bodies

\* an object without some of its attributes
Without(object, attributes) ==
    [a \in (DOMAIN object) \ attributes |-> object[a]]

\* instance.toJSON(): every attribute the instance was loaded with
toJSON(inst) == inst @@ [youtubeLinks |-> youtubeLinks[inst.id]]

\* data of the 201 of signUp: the tokens, and newUser after generateTokens
\* without password and refreshToken
signUpBody(inst) ==
    LET tokens == generateTokens(inst)
        newUser == [inst EXCEPT !.refreshToken = tokens.refreshToken]
    IN [accessToken |-> tokens.accessToken,
        refreshToken |-> tokens.refreshToken,
        user |-> Without(toJSON(newUser), {"password", "refreshToken"})]

\* data of the 200 of signIn
signInBody(inst) ==
    LET tokens == generateTokens(inst)
        user == [inst EXCEPT !.refreshToken = tokens.refreshToken]
    IN [accessToken |-> tokens.accessToken,
        refreshToken |-> tokens.refreshToken,
        user |-> Without(toJSON(user), {"password", "refreshToken"})]

\* a user loaded with every attribute
publicUser_AllAttributes(id) ==
    toJSON(findByPk(id)) @@ [profilePictureUrl |-> profilePictureUrl(id)]

\* findByPk(id, { attributes: { exclude: [...] } }).toJSON() with its
\* profilePictureUrl
publicUser(id) ==
    Without(toJSON(findByPk(id)), {"password", "refreshToken", "tokenVersion"})
        @@ [profilePictureUrl |-> profilePictureUrl(id)]

\* data of getUsers: the rows by created_at DESC
getUsersBody ==
    [i \in 1..Cardinality(UserIds) |-> publicUser(Cardinality(UserIds) + 1 - i)]

\* data of getUserById, getProfile, updateProfile and removeYoutubeLink
getUserByIdBody(id) == publicUser(id)
getProfileBody(id) == publicUser(id)
updateProfileBody(id) == publicUser(id)
removeYoutubeLinkBody(r) == publicUser(r.uid)

\* data of the 201 of addYoutubeLink
addYoutubeLinkBody(r) == [newLink |-> r.link, user |-> publicUser(r.uid)]

----------------------------------------------------------------------------
\* The specification

\* ids a row can get: one per email, since email is unique
AllIds == 1..Cardinality(Emails)

Init ==
    /\ now = 0
    /\ ticks = 0
    /\ envSecret \in EnvSecrets
    /\ db = <<>>
    /\ tokenBlacklist = {}
    /\ timers = {}
    /\ reqs = EmptyBag
    /\ last = [op |-> "none", status |-> 0, token |-> NoToken]
    /\ issued = {}
    /\ invalidated = {}
    /\ revoked = {}
    /\ signOuts = [u \in AllIds |-> 0]
    /\ pwChanges = [u \in AllIds |-> 0]
    /\ ms = 0
    /\ youtubeLinks = [u \in LinkUserIds |-> <<>>]
    /\ linkReqs = EmptyBag
    /\ content = NoContent
    /\ NoProfileYet

\* bearer tokens a client can present: the ones it was given, and forgeries
Bearers == IssuedAccess \cup {forged(u, now) : u \in AllIds} \cup {NoToken}

\* refresh tokens a client can present
Presentable == {t \in issued : t.typ = "refresh"}
                  \cup {[signRefresh(u, 0, now) EXCEPT !.key = "forged"] : u \in AllIds}
                  \cup {NoToken}

\* the requests the routes of the API serve, the timers and the clock
NextApi ==
    \/ \E e \in Emails \cup {BadEmail} : signUpFind(e, InitialPassword)
    \/ \E r \in InFlight : signUpCreate(r)
    \/ \E r \in InFlight : signUpTokens(r)
    \/ \E e \in Emails \cup {BadEmail}, p \in Passwords : signInFind(e, p)
    \/ \E r \in InFlight : signInTokens(r)
    \/ \E t \in Presentable : refreshToken(t)
    \/ \E t \in Bearers : authorize(t)
    \/ \E r \in InFlight : signOutHandler(r)
    \/ \E r \in InFlight : signOutFind(r)
    \/ \E r \in InFlight : signOutSave(r)
    \/ \E tm \in timers : timerFire(tm)
    \/ \E d \in TickSteps : Tick(d)

\* the API together with saves of an instance whose password was changed
Next ==
    \/ NextApi
    \/ \E u \in AllIds : passwordLoad(u, NewPassword)
    \/ \E r \in InFlight : passwordSave(r)

SpecApi == Init /\ [][NextApi]_vars

Spec == Init /\ [][Next]_vars

\* the sign-up route, by which users come to exist and get their tokens, the
\* link routes and the millisecond clock
NextLinks ==
    \/ \E e \in LinkEmails : signUpFind(e, InitialPassword)
    \/ \E r \in InFlight : signUpCreate(r)
    \/ \E r \in InFlight : signUpTokens(r)
    \/ \E u \in UserIds, url \in {GoodUrl, BadUrl} : addLinkFind(u, url, Title)
    \/ \E r \in LinksInFlight : addLinkUpdate(r)
    \/ \E r \in LinksInFlight : addLinkRespond(r)
    \/ \E u \in UserIds, id \in LinkIds : removeLinkFind(u, id)
    \/ \E r \in LinksInFlight : removeLinkUpdate(r)
    \/ \E r \in LinksInFlight : removeLinkRespond(r)
    \/ TickMs

SpecLinks == Init /\ [][NextLinks]_vars

\* the email of each user of the link routes
EmailOf == 1 :> "ann@x.com" @@ 2 :> "bob@x.com"

\* link collections the link routes can leave behind: every entry is made by
\* newLink at some millisecond, later entries are not older than earlier ones
LinkAt(t) ==
    [id |-> ToString(t), url |-> GoodUrl, title |-> Title, addedAt |-> toISOString(t)]
Collections ==
    {<<>>} \cup {<<LinkAt(t)>> : t \in 0..MaxDate}
           \cup {<<LinkAt(p[1]), LinkAt(p[2])>> :
                    p \in {d \in (0..MaxDate) \X (0..MaxDate) : d[1] <= d[2]}}

\* both users have signed up in second 0 and their rows hold link collections
SignedUp(collections) ==
    /\ now = 0
    /\ ticks = 0
    /\ envSecret = HardSecret
    /\ db = [u \in LinkUserIds |->
                [email |-> EmailOf[u], password |-> Hash(Plain(InitialPassword)),
                 tokenVersion |-> InitialTokenVersion,
                 refreshToken |-> signRefresh(u, InitialTokenVersion, 0)]]
    /\ tokenBlacklist = {}
    /\ timers = {}
    /\ reqs = EmptyBag
    /\ last = Response("signUp", 201, signRefresh(2, InitialTokenVersion, 0))
    /\ issued = UNION {{signAccess(u, 0), signRefresh(u, InitialTokenVersion, 0)} :
                          u \in LinkUserIds}
    /\ invalidated = {}
    /\ revoked = {}
    /\ signOuts = [u \in AllIds |-> 0]
    /\ pwChanges = [u \in AllIds |-> 0]
    /\ ms = MaxDate
    /\ youtubeLinks \in [LinkUserIds -> collections]
    /\ linkReqs = EmptyBag
    /\ content = NoContent

\* nobody has changed a profile since
Listing(collections) == SignedUp(collections) /\ NoProfileYet

\* both users have signed up in second 0 and have added and removed links
InitContent == Listing(Collections)

NextContent == \E q \in Queries : getAllContentHandler(q)

SpecContent == InitContent /\ [][NextContent]_vars

\* entries as the JSONB column can hold them: complete ones, and entries
\* without id, without url, without title and without addedAt
StoredEntries ==
    {LinkAt(0), LinkAt(1),
     [LinkAt(0) EXCEPT !.id = ""],
     [LinkAt(1) EXCEPT !.url = ""],
     [LinkAt(1) EXCEPT !.title = "", !.addedAt = NoDate]}
StoredCollections ==
    {<<>>} \cup {<<e>> : e \in StoredEntries}
           \cup {<<e1, e2>> : e1 \in StoredEntries, e2 \in StoredEntries}

\* the rows hold collections with entries that lack attributes
InitStored == Listing(StoredCollections)

StoredQueries == [page : {Absent, "1", "2"}, limit : {Absent, "1"}, sortBy : {Absent}]

NextStored == \E q \in StoredQueries : getAllContentHandler(q)

SpecStored == InitStored /\ [][NextStored]_vars

\* both users have signed up, the first has uploaded a picture since
InitProfile ==
    /\ SignedUp({<<>>})
    /\ profile = [u \in LinkUserIds |->
                     IF u = 1 THEN [NewProfile EXCEPT !.profilePicture = OldPicture]
                     ELSE NewProfile]
    /\ files = {OldPicture}
    /\ puts = 0
    /\ profileReqs = EmptyBag
    /\ sent = NoResponse

NextProfile ==
    \/ \E u \in UserIds, body \in Bodies : updateProfileInvalid(u, body)
    \/ \E u \in UserIds, body \in Bodies : updateProfileFind(u, body)
    \/ \E r \in ProfilesInFlight : updateProfileCheck(r)
    \/ \E r \in ProfilesInFlight, outcome \in {NoError, ConnectionError} :
          updateProfileUpdate(r, outcome)
    \/ \E r \in ProfilesInFlight : updateProfileRespond(r)

SpecProfile == InitProfile /\ [][NextProfile]_vars

\* errors the store calls of the auth handlers throw, and the profile
\* requests made while they do
Thrown == {ConnectionError, TypeError, EmptyError}
ErrorBodies == {[NoFields EXCEPT !.name = NewName], [NoFields EXCEPT !.file = TRUE]}

\* the routes with store calls that throw: both users have signed up, and
\* a store call of a handler either returns or throws
NextErrors ==
    \/ signUpFind(NewEmail, InitialPassword)
    \/ \E r \in InFlight, err \in Thrown : signUpThrows(r, err)
    \/ \E e \in Emails : signInFind(e, InitialPassword)
    \/ \E r \in InFlight : signInTokens(r)
    \/ \E r \in InFlight, err \in Thrown : signInThrows(r, err)
    \/ \E t \in Presentable, err \in Thrown : refreshThrows(t, err)
    \/ \E t \in IssuedAccess : authorize(t)
    \/ \E r \in InFlight : signOutHandler(r)
    \/ \E r \in InFlight : signOutFind(r)
    \/ \E r \in InFlight, err \in Thrown : signOutThrows(r, err)
    \/ \E body \in ErrorBodies : updateProfileFind(1, body)
    \/ \E r \in ProfilesInFlight, outcome \in Errors \cup {NoError} :
          updateProfileUpdate(r, outcome)
    \/ \E r \in ProfilesInFlight : updateProfileRespond(r)

SpecErrors == InitProfile /\ [][NextErrors]_vars

----------------------------------------------------------------------------
\* Properties

\* C1: a refresh token that was returned to a client before a sign-out
\* answered 200, or before a password change of its user completed, is
\* rejected by refresh in every later state.
C1_InvalidatedRejected ==
    \A t \in invalidated : refreshStatus(t) # 200

\* C2: tokenVersion of every user equals the number of sign-outs answered 200
\* plus the number of completed password changes of that user.
C2_VersionCountsBumps ==
    \A u \in UserIds : db[u].tokenVersion = signOuts[u] + pwChanges[u]

\* C3: tokenVersion starts at 0 and no step stores a smaller value than the
\* one it replaces.
C3_NeverDecreases ==
    [][\A u \in DOMAIN db' :
          IF u \in DOMAIN db
          THEN db'[u].tokenVersion >= db[u].tokenVersion
          ELSE db'[u].tokenVersion = 0]_vars

\* the refresh tokens somebody can hold or that are stored on a row
RefreshUniverse == Presentable \cup {db[u].refreshToken : u \in UserIds}

Live(u) == {t \in RefreshUniverse : t.uid = u /\ refreshStatus(t) = 200}

\* C4: for every user at most one refresh token value is accepted by refresh.
C4_AtMostOneLive ==
    \A u \in AllIds : Cardinality(Live(u)) <= 1

\* a client holds two different unexpired refresh tokens of the same user and
\* version, and one of them is accepted
C4_Witness ==
    \E t1, t2 \in Presentable :
        /\ t1 # t2 /\ t1.uid = t2.uid /\ t1.ver = t2.ver
        /\ verify(t1, HardSecret, now) /\ verify(t2, HardSecret, now)
        /\ refreshStatus(t1) = 200

\* C5: when a sign-in answers 200 with a new token pair, every refresh token
\* returned to a client before that for the same user is rejected by refresh.
C5_EarlierTokensRejected ==
    [][\A r \in InFlight :
          (r.kind = "signIn" /\ r.pc = "tokens" /\ reqs' = Finish(r))
          => \A t \in IssuedRefresh(r.inst.id) : refreshStatus(t)' # 200]_vars

\* C6: the step in which a sign-out answers 200 leaves the presented token
\* revoked, the user's tokenVersion one higher and the stored refresh token
\* null.
C6_SignOutRevokesAll ==
    [][\A r \in InFlight :
          (r.kind = "signOut" /\ reqs' = Finish(r))
          => /\ r.token \in revoked'
             /\ db'[r.token.uid].tokenVersion = db[r.token.uid].tokenVersion + 1
             /\ db'[r.token.uid].refreshToken = NoToken]_vars

\* C7: a token that sign-out has put in the blacklist is rejected by
\* authorize ever after: it is still in the blacklist or it has expired.
C7_RevokedStaysRejected ==
    \A t \in revoked :
        /\ authorizeStatus(t) = 401
        /\ t \in tokenBlacklist \/ now >= Exp(t)

\* the timer has removed a revoked token from the blacklist
C7_Witness ==
    \E t \in revoked : t \notin tokenBlacklist /\ t.key = envSecret

\* C8: every token in the blacklist has a removal pending.
C8_EveryRevokedHasTimer ==
    \A t \in tokenBlacklist : \E tm \in timers : tm.token = t

\* C9: a sign-out request with a bearer token is answered 200 whatever the
\* token: authorize lets it through and signOut answers 200.
C9_SignOutAlways200 ==
    /\ \A t \in Bearers \ {NoToken} : authorizeStatus(t) = 0
    /\ last.op = "signOut" => last.status = 200

SignatureInvalid(t) == t.key # envSecret
Expired(t) == now >= Exp(t)
Blacklisted(t) == t \in tokenBlacklist

\* C10: authorize answers 401 for every token whose signature is invalid,
\* that is expired or that is blacklisted, and signOut is never entered with
\* such a token.
C10_BadTokensRejected ==
    /\ [](\A t \in Bearers \cup revoked :
             (SignatureInvalid(t) \/ Expired(t) \/ Blacklisted(t))
             => authorizeStatus(t) = 401)
    /\ [][\A r \in BagToSet(reqs') :
             (r.pc = "handler" /\ CopiesIn(r, reqs') > CopiesIn(r, reqs))
             => ~(SignatureInvalid(r.token) \/ Expired(r.token)
                    \/ Blacklisted(r.token))]_vars

\* a client holds a token that is validly signed and unexpired but blacklisted
C10_Witness ==
    \E t \in IssuedAccess :
        Blacklisted(t) /\ ~SignatureInvalid(t) /\ ~Expired(t)

\* refresh tokens of every user id and version, validly signed or not, issued
\* at the start or now, with the ones clients hold and the stored ones
RefreshCandidates ==
    RefreshUniverse
       \cup {[signRefresh(u, v, t) EXCEPT !.key = k] :
                u \in AllIds, v \in 0..MaxPwChanges, t \in {0, now},
                k \in {HardSecret, "forged"}}

\* the four ways the verification of a presented refresh token fails
BadSignatureOrExpired(t) == t.key # HardSecret \/ now >= Exp(t)
NotTheStoredToken(t) == t.uid \in UserIds /\ db[t.uid].refreshToken # t
UserGone(t) == t.uid \notin UserIds
VersionMismatch(t) == t.uid \in UserIds /\ t.ver # db[t.uid].tokenVersion

VerificationFails(t) ==
    \/ BadSignatureOrExpired(t) \/ NotTheStoredToken(t)
    \/ UserGone(t) \/ VersionMismatch(t)

\* C11: refresh answers 401 for every presented token whose signature is
\* invalid or that is expired, that differs from the stored refresh token,
\* whose user does not exist or whose version differs from tokenVersion; it
\* answers 200 with a new access token only when none of these holds.
C11_RefreshFailuresAre401 ==
    /\ [](\A t \in RefreshCandidates \ {NoToken} :
             refreshStatus(t) = IF VerificationFails(t) THEN 401 ELSE 200)
    /\ [][(last' # last /\ last'.op = "refreshToken")
             => /\ ~VerificationFails(last'.token)
                /\ signAccess(last'.token.uid, now) \in issued']_vars

\* the stored refresh token of the current version is validly signed and has
\* expired: refresh rejects it for its expiry alone
C11_Witness ==
    \E t \in RefreshCandidates :
        /\ t.key = HardSecret /\ now >= Exp(t)
        /\ ~NotTheStoredToken(t) /\ ~UserGone(t) /\ ~VersionMismatch(t)

\* C12: while a row holds an email, a sign-up with that email is answered
\* 409 and starts no insert, and the number of rows with that email is one
\* and stays one.
C12_HeldEmailIs409 ==
    /\ [](\A e \in Emails :
             findOne(e) # {}
             => signUpStatus(e) = 409 /\ Cardinality(findOne(e)) = 1)
    /\ [][\A e \in Emails :
             findOne(e) # {}
             => /\ Cardinality(findOne(e)') = 1
                /\ \A r \in BagToSet(reqs') :
                      (r.kind = "signUp" /\ r.inst.email = e)
                      => CopiesIn(r, reqs') <= CopiesIn(r, reqs)]_vars

\* a sign-up has created the row of an email, so that the next sign-up with
\* it is answered 409
C12_Witness ==
    \E e \in Emails :
        /\ Cardinality(findOne(e)) = 1 /\ signUpStatus(e) = 409
        /\ last.op = "signUp" /\ last.status = 201

\* C13: a sign-up whose insert the unique index on email rejects, as happens
\* to the second of two sign-ups that both passed the pre-check, is answered
\* 409 and not 500.
C13_UniqueViolationIs409 ==
    [][\A r \in InFlight :
          (/\ r.kind = "signUp" /\ r.pc = "create"
           /\ findOne(r.inst.email) # {} /\ reqs' = Finish(r))
          => last'.status = 409]_vars

\* the query that asks for a sort type and nothing else
SortQuery(sb) == [page |-> Absent, limit |-> Absent, sortBy |-> sb]

HasPassword(object) == "password" \in DOMAIN object

\* C14: no response body of sign-up, sign-in, user list, user by id, own
\* profile, profile update, link add, link remove or content listing holds the
\* password attribute of a user.
C14_NoPasswordInResponses ==
    /\ \A r \in InFlight :
          (r.kind = "signUp" /\ r.pc = "tokens")
          => ~HasPassword(signUpBody(r.inst)) /\ ~HasPassword(signUpBody(r.inst).user)
    /\ \A u \in UserIds :
          /\ ~HasPassword(signInBody(findByPk(u)))
          /\ ~HasPassword(signInBody(findByPk(u)).user)
          /\ ~HasPassword(getUserByIdBody(u))
          /\ ~HasPassword(getProfileBody(u))
          /\ ~HasPassword(updateProfileBody(u))
    /\ \A i \in DOMAIN getUsersBody : ~HasPassword(getUsersBody[i])
    /\ \A r \in LinksInFlight :
          r.pc = "respond"
          => IF r.kind = "add"
             THEN /\ ~HasPassword(addYoutubeLinkBody(r).newLink)
                  /\ ~HasPassword(addYoutubeLinkBody(r).user)
             ELSE ~HasPassword(removeYoutubeLinkBody(r))
    /\ LET data == getAllContent(SortQuery(Absent)).data IN
       \A i \in DOMAIN data : ~HasPassword(data[i]) /\ ~HasPassword(data[i].user)

\* the row of a user holds a password hash while the response to a link the
\* user added is due and the listing shows a link
C14_Witness ==
    /\ \E r \in LinksInFlight :
          /\ r.kind = "add" /\ r.pc = "respond"
          /\ db[r.uid].password = Hash(Plain(InitialPassword))
    /\ allContent # <<>>

\* C15: for every user and collection, adding a link and then removing the
\* link with the id the add returned leaves the collection as it was before
\* the add, entries and order.
C15_AddThenRemoveRestores ==
    \A u \in UserIds :
        LET link == newLink(GoodUrl, Title)
            added == Append(youtubeLinks[u], link)
        IN removeFilter(added, link.id) = youtubeLinks[u]

HasLink(u, linkId) ==
    \E i \in 1..Len(youtubeLinks[u]) : youtubeLinks[u][i].id = linkId

\* C16: a removeLink with an id that no link of the user has is answered 404
\* and goes on to no update: the row stays as it is.
C16_UnknownIdIs404 ==
    /\ [](\A u \in UserIds, id \in LinkIds :
             ~HasLink(u, id) => removeYoutubeLinkStatus(u, id) = 404)
    /\ [][\A r \in BagToSet(linkReqs') :
             (/\ r.kind = "remove" /\ r.pc = "update"
              /\ CopiesIn(r, linkReqs') > CopiesIn(r, linkReqs))
             => HasLink(r.uid, r.link.id)]_vars

\* a user with links is asked to remove an id none of them has
C16_Witness ==
    \E u \in UserIds, id \in LinkIds :
        /\ Len(youtubeLinks[u]) > 0 /\ ~HasLink(u, id)
        /\ removeYoutubeLinkStatus(u, id) = 404

\* C17: no two links, of the same user or of different users, have the same
\* id.
C17_LinkIdsUnique ==
    \A u1, u2 \in LinkUserIds :
        \A i \in 1..Len(youtubeLinks[u1]), j \in 1..Len(youtubeLinks[u2]) :
            (u1 # u2 \/ i # j) => youtubeLinks[u1][i].id # youtubeLinks[u2][j].id

\* the date of an item, in milliseconds
Date(item) == getTime(item.addedAt)

Descending(items) ==
    \A i \in 1..Len(items) - 1 : Date(items[i]) >= Date(items[i + 1])
Ascending(items) ==
    \A i \in 1..Len(items) - 1 : Date(items[i]) <= Date(items[i + 1])
Reverse(items) == [i \in 1..Len(items) |-> items[Len(items) + 1 - i]]
Times(item, items) == Cardinality({i \in 1..Len(items) : items[i] = item})
SameItems(a, b) ==
    Len(a) = Len(b) /\ \A i \in 1..Len(a) : Times(a[i], a) = Times(a[i], b)
DistinctDates ==
    \A i, j \in 1..total : i # j => Date(allContent[i]) # Date(allContent[j])

\* C18: the listing holds the items of all users ordered by addedAt,
\* descending for newest, popular and no sort type, ascending for oldest; when
\* all dates differ the oldest order is the reverse of the newest order.
C18_OrderedByAddedAt ==
    /\ \A sb \in SortTypes \cup {Absent} :
          LET sorted == sort(allContent, sortBy(SortQuery(sb))) IN
          /\ SameItems(sorted, allContent)
          /\ IF sb = "oldest" THEN Ascending(sorted) ELSE Descending(sorted)
    /\ DistinctDates
          => sort(allContent, sortBy(SortQuery("oldest")))
                = Reverse(sort(allContent, sortBy(SortQuery("newest"))))
    /\ content.status = 200
          => IF content.query.sortBy = "oldest" THEN Ascending(content.data)
             ELSE Descending(content.data)

\* a listing in oldest order shows three items of different dates, of both
\* users
C18_Witness ==
    /\ content.status = 200 /\ content.query.sortBy = "oldest"
    /\ DistinctDates /\ Len(content.data) >= 3
    /\ \E i, j \in 1..Len(content.data) :
          content.data[i].user.id # content.data[j].user.id

\* the page and the limit a query asks for
Requested(s, default) == IF s = Absent THEN default ELSE Decimal[s]

\* the pages 1..n of a limit and a sort type, one after the other
RECURSIVE pagesUpTo(_, _, _)
pagesUpTo(n, l, sb) ==
    IF n = 0 THEN <<>>
    ELSE pagesUpTo(n - 1, l, sb)
            \o paginatedContent([page |-> ToString(n), limit |-> l, sortBy |-> sb])

\* C19: for a page p >= 1 and a limit l in 1..50 the items are the elements
\* of the sorted sequence at the indices from (p-1)*l up to, not including,
\* min((p-1)*l + l, total); the pages 1..totalPages one after the other are
\* the sorted sequence; a page beyond totalPages is empty.
C19_PageIsSlice ==
    /\ content.status = 200 =>
          LET q == content.query
              p == Requested(q.page, 1)
              l == Requested(q.limit, 10)
              sorted == sort(allContent, sortBy(q))
              from == (p - 1) * l
              to == Min(from + l, total)
          IN /\ Len(content.data) = Max(to - from, 0)
             /\ \A i \in 1..Len(content.data) : content.data[i] = sorted[from + i]
             /\ p > totalPages(q) => content.data = <<>>
    /\ \A l \in {"1", "2", "50"}, sb \in SortTypes :
          pagesUpTo(totalPages([SortQuery(sb) EXCEPT !.limit = l]), l, sb)
             = sort(allContent, sb)

\* a listing shows a page that is neither the first nor the last
C19_Witness ==
    /\ content.status = 200
    /\ page(content.query) = 2 /\ content.data # <<>>
    /\ endIndex(content.query) < total

\* C20: totalPages is the ceiling of total / limit; hasNextPage holds exactly
\* when items follow the page, and nextPage is then page + 1 and null
\* otherwise; hasPreviousPage holds exactly when page > 1, and previousPage
\* is then page - 1 and null otherwise.
C20_PaginationConsistent ==
    content.status = 200 =>
        LET q == content.query
            p == Requested(q.page, 1)
            l == Requested(q.limit, 10)
            pg == content.pagination
        IN /\ pg.total = total
           /\ pg.totalPages * l >= total /\ (pg.totalPages - 1) * l < total
           /\ pg.hasNextPage <=> p * l < total
           /\ pg.nextPage = IF p * l < total THEN p + 1 ELSE Null
           /\ pg.hasPreviousPage <=> p > 1
           /\ pg.previousPage = IF p > 1 THEN p - 1 ELSE Null

\* a listing shows the last page, which is not full and has a page before it
C20_Witness ==
    /\ content.status = 200
    /\ total % content.pagination.limit # 0
    /\ content.pagination.hasPreviousPage /\ ~content.pagination.hasNextPage
    /\ content.data # <<>>

\* a query whose page and limit are decimal numbers or absent
Numeric(q) ==
    /\ q.page \in DOMAIN Decimal \cup {Absent}
    /\ q.limit \in DOMAIN Decimal \cup {Absent}
    /\ q.sortBy \in SortTypes \cup {Absent}

\* C21: a listing request with a limit outside 1..50 or a page below 1 is
\* answered 200, served with the limit clamped into 1..50 and the page raised
\* to 1.
C21_OutOfRangeIsClamped ==
    \A q \in Queries :
        Numeric(q)
        => /\ getAllContentStatus(q) = 200
           /\ limit(q) = Min(50, Max(1, Requested(q.limit, 10)))
           /\ page(q) = Max(1, Requested(q.page, 1))
           /\ Len(paginatedContent(q)) <= limit(q)

\* an entry that has an id and a url
Complete(link) == link.id # "" /\ link.url # ""

\* the positions of the stored entries that have both
CompleteEntries ==
    {e \in LinkUserIds \X (1..2) :
        e[2] <= Len(youtubeLinks[e[1]]) /\ Complete(youtubeLinks[e[1]][e[2]])}

\* the item of the listing is the one made of the entry at a position
ItemOf(item, e) ==
    /\ item.user.id = e[1]
    /\ item.id = youtubeLinks[e[1]][e[2]].id
    /\ item.url = youtubeLinks[e[1]][e[2]].url

\* C22: an entry without id or without url is on no page and is not counted
\* in pagination.total; every entry with both is on exactly one page.
C22_MalformedDiscarded ==
    /\ total = Cardinality(CompleteEntries)
    /\ content.status = 200
          => /\ content.pagination.total = Cardinality(CompleteEntries)
             /\ \A i \in 1..Len(content.data) : Complete(content.data[i])
    /\ \A l \in {"1", "2"} :
          LET pages == pagesUpTo(totalPages([SortQuery(Absent) EXCEPT !.limit = l]),
                                 l, Absent)
          IN /\ Len(pages) = Cardinality(CompleteEntries)
             /\ \A i \in 1..Len(pages) : Complete(pages[i])
             /\ \A e \in CompleteEntries :
                   Cardinality({i \in 1..Len(pages) : ItemOf(pages[i], e)})
                      = Cardinality({f \in CompleteEntries :
                                       /\ f[1] = e[1]
                                       /\ youtubeLinks[f[1]][f[2]].id
                                             = youtubeLinks[e[1]][e[2]].id
                                       /\ youtubeLinks[f[1]][f[2]].url
                                             = youtubeLinks[e[1]][e[2]].url})

\* a listing is served while a row holds an entry without id and a row holds
\* an entry without url, next to complete ones
C22_Witness ==
    /\ content.status = 200 /\ content.data # <<>>
    /\ \E u \in LinkUserIds, i \in 1..2 :
          i <= Len(youtubeLinks[u]) /\ youtubeLinks[u][i].id = ""
    /\ \E u \in LinkUserIds, i \in 1..2 :
          i <= Len(youtubeLinks[u]) /\ youtubeLinks[u][i].url = ""

\* the user.update step of request r is taken
Updates(r) ==
    /\ r.pc = "update"
    /\ CopiesIn(r, profileReqs') < CopiesIn(r, profileReqs)

\* C23: the update of a profile request changes, among name, email, bio,
\* location and profilePicture, only the fields the request supplies, and
\* leaves password, tokenVersion, refreshToken and youtubeLinks as they are.
C23_OnlySuppliedFieldsChange ==
    [][\A r \in ProfilesInFlight :
          Updates(r)
          => /\ r.body.name = Absent
                => profile'[r.uid].name = profile[r.uid].name
             /\ r.body.email = Absent => db'[r.uid].email = db[r.uid].email
             /\ r.body.bio = Absent => profile'[r.uid].bio = profile[r.uid].bio
             /\ r.body.location = Absent
                => profile'[r.uid].location = profile[r.uid].location
             /\ ~r.body.file
                => profile'[r.uid].profilePicture = profile[r.uid].profilePicture
             /\ db'[r.uid].password = db[r.uid].password
             /\ db'[r.uid].tokenVersion = db[r.uid].tokenVersion
             /\ db'[r.uid].refreshToken = db[r.uid].refreshToken
             /\ youtubeLinks' = youtubeLinks]_vars

\* a profile request ends without its 200: at the validation, at the email
\* pre-check or at the store write
Rejects ==
    \/ puts' > puts /\ profileReqs' = profileReqs
    \/ \E r \in ProfilesInFlight :
          /\ r.pc \in {"check", "update"}
          /\ profileReqs' = ProfileFinish(r)

\* the picture files on disk that the rows reference
referenced(rows, disk) ==
    {rows[u].profilePicture : u \in LinkUserIds} \cap disk

\* C24: a rejected profile request applies nothing: the rows and the picture
\* files they reference are after it what they were before it.
C24_RejectedAppliesNothing ==
    [][Rejects
       => /\ db' = db
          /\ profile' = profile
          /\ referenced(profile', files') = referenced(profile, files)]_vars

\* errors that are not validation, authentication, conflict, not-found or
\* store-connection errors
Unexpected == {DatabaseError, TypeError, EmptyError, TeapotError}

\* C25: an unexpected error is answered with status 500 and never with the
\* message of the error, by the error middleware and by the sign-up,
\* sign-in, refresh and sign-out handlers.
C25_UnexpectedIsGeneric500 ==
    sent.error \in Unexpected
    => /\ sent.status = 500
       /\ sent.message # sent.error.message

\* C26: a stored refresh token that is not null embeds the tokenVersion of
\* its row, in every reachable state.
C26_StoredTokenHasCurrentVersion ==
    \A u \in UserIds :
        db[u].refreshToken # NoToken
        => db[u].refreshToken.ver = db[u].tokenVersion

\* C27: an access token that was issued, is unexpired, is not in the
\* blacklist and whose user exists is accepted by authorize, whatever
\* process.env.JWT_SECRET is.
C27_IssuedAccessAccepted ==
    \A t \in IssuedAccess :
        (now < Exp(t) /\ t \notin tokenBlacklist /\ t.uid \in UserIds)
        => authorizeStatus(t) = 0

\* the links stored for a user
Stored(links) == {links[i] : i \in 1..Len(links)}

\* C28: the update of an addLink keeps every link the user has, and the
\* update of a removeLink keeps every link but the ones with the removed id
\* and brings none back.
C28_NoLinkLost ==
    [][\A r \in LinksInFlight :
          (r.pc = "update" /\ CopiesIn(r, linkReqs') < CopiesIn(r, linkReqs))
          => IF r.kind = "add"
             THEN Stored(youtubeLinks[r.uid]) \subseteq Stored(youtubeLinks'[r.uid])
             ELSE Stored(youtubeLinks'[r.uid])
                     = {l \in Stored(youtubeLinks[r.uid]) : l.id # r.link.id}]_vars

====
